---- MODULE Spec2Model ----
(***************************************************************************)
(* Model of src/src/components/RequestForm.tsx: the reimbursement          *)
(* calculator, the dependent list editor, the file upload gateway          *)
(* (uploadFiles) and the request submission workflow (onSubmit).           *)
(*                                                                         *)
(* Money is counted in thousandths of a currency unit, so that 90% of an   *)
(* amount entered in whole cents is an integer: 2018.36 is 2018360.        *)
(* File sizes are in bytes.                                                *)
(***************************************************************************)
EXTENDS Integers, Sequences, FiniteSets, TLC

VARIABLES
  profile,        \* useAuth().profile: NoProfile, or the profile id
  form,           \* react-hook-form values: cpf, amount, polo, salary
  showCalculator, \* useState(false)
  dependents,     \* useState<Dependent[]>([])
  invoices,       \* useState<any[]>([])
  uploading,      \* useState(false)
  toast,          \* the notification raised by the last handler, or "none"
  sub,            \* the running onSubmit call: its position and its closure
  requests,       \* the remote table written by createRequest: id and owner
  storage,        \* keys of the objects in bucket 'request-attachments'
  clock,          \* Date.now()
  uf              \* the running uploadFiles call: its position and locals

vars == << profile, form, showCalculator, dependents, invoices, uploading,
           toast, sub, requests, storage, clock, uf >>

----------------------------------------------------------------------------
(* Bounds of the model *)

MaxDependents == 2
MaxInvoices == 2
MaxBatch == 3
MaxClock == 1
MaxRequests == 1

----------------------------------------------------------------------------
(* Constants of the program *)

BASE_SALARY == 2018360
SALARY_PERCENTAGE_TENTHS == 9
MAX_FILE_SIZE == 52428800
CPF_LENGTH == 11
MIN_AMOUNT == 10

MiB == 1048576

NoProfile == "no-profile"
Undefined == "undefined"
NoFile == [name |-> "undefined", size |-> 0]

Owners == {"u1"}

----------------------------------------------------------------------------
(* The onSubmit call *)

\* form defaultValues
defaultValues == [cpf |-> <<>>, amount |-> 0, polo |-> "", salary |-> 0]

\* sub records the onSubmit call: where it stands (pc), the values, invoices
\* and dependents of the render it was started from, the id createRequest
\* answered, the calls of uploadInvoices it made and, once that call has
\* ended, the keys it had stored and the paths it has linked to the request.
SubIdle == [pc |-> "idle", values |-> defaultValues, invoices |-> <<>>,
            dependents |-> <<>>, created |-> 0, uploadCalls |-> <<>>,
            stored |-> <<>>, linked |-> <<>>]

\* The handlers that edit the form are taken between submissions: a call
\* in flight reads the values of the render it was started from and no
\* state of the form before it ends.  The record of a call that has
\* returned is kept until the next edit.
BetweenSubmissions == sub.pc \in {"idle", "done", "errored"}

----------------------------------------------------------------------------
(* Reimbursement calculator *)

\* salaries typed into the calculator, in thousandths (whole cents)
SalaryInputs == {-1000000, 0, 10, 1500000, 2242620, 2242630, 5000000}

\* amounts typed into the amount field
AmountInputs == {0, 500000}

\* a variant without the salary <= 0 case
calculateReimbursement_NoGuard(salary) ==
  LET maxReimbursable == (salary * SALARY_PERCENTAGE_TENTHS) \div 10
  IN  IF maxReimbursable <= BASE_SALARY THEN BASE_SALARY ELSE maxReimbursable

calculateReimbursement(salary) ==
  IF salary <= 0 THEN 0
  ELSE LET maxReimbursable == (salary * SALARY_PERCENTAGE_TENTHS) \div 10
       IN  IF maxReimbursable <= BASE_SALARY THEN BASE_SALARY
           ELSE maxReimbursable

\* watchSalary || 0 : the number 0 is falsy and maps to itself
suggestedAmount == calculateReimbursement(form.salary)

\* salary field onChange: parseFloat(e.target.value) || 0; the field is
\* rendered when showCalculator
SetSalary ==
  /\ BetweenSubmissions
  /\ showCalculator
  /\ \E s \in SalaryInputs : form' = [form EXCEPT !.salary = s]
  /\ UNCHANGED << profile, showCalculator, dependents, invoices, uploading,
                  requests, storage, clock, uf >>
  /\ toast' = "none"
  /\ sub' = SubIdle

\* amount field onChange: parseFloat(e.target.value) || 0
SetAmount ==
  /\ BetweenSubmissions
  /\ \E a \in AmountInputs : form' = [form EXCEPT !.amount = a]
  /\ UNCHANGED << profile, showCalculator, dependents, invoices, uploading,
                  requests, storage, clock, uf >>
  /\ toast' = "none"
  /\ sub' = SubIdle

ToggleCalculator ==
  /\ BetweenSubmissions
  /\ showCalculator' = ~showCalculator
  /\ UNCHANGED << profile, form, dependents, invoices, uploading,
                  requests, storage, clock, uf >>
  /\ toast' = "none"
  /\ sub' = SubIdle

\* the "Usar Valor" button is rendered when showCalculator and suggestedAmount > 0
useSuggestedAmount ==
  /\ BetweenSubmissions
  /\ showCalculator
  /\ suggestedAmount > 0
  /\ form' = [form EXCEPT !.amount = suggestedAmount]
  /\ toast' = "Valor atualizado"
  /\ sub' = SubIdle
  /\ UNCHANGED << profile, showCalculator, dependents, invoices, uploading,
                  requests, storage, clock, uf >>

----------------------------------------------------------------------------
(* Dependent list editor *)

\* A list element is a record of the two fields; a field that the object
\* does not have reads as Undefined.  An array hole and an object without
\* fields both read Undefined on both fields and are identified.
EmptySlot == [name |-> Undefined, relationship |-> Undefined]

DependentValues == {"", "Ana", "filho"}
DependentFields == {"name", "relationship"}

addDependent ==
  /\ BetweenSubmissions
  /\ Len(dependents) < MaxDependents
  /\ dependents' = Append(dependents, [name |-> "", relationship |-> ""])
  /\ UNCHANGED << profile, form, showCalculator, invoices, uploading,
                  requests, storage, clock, uf >>
  /\ toast' = "none"
  /\ sub' = SubIdle

\* dependents.filter((_, i) => i !== index), index counted from 0
removeAt(list, index) ==
  LET keep == { i \in 1..Len(list) : i - 1 # index }
      pos(k) == CHOOSE i \in keep : Cardinality({ j \in keep : j <= i }) = k
  IN  [ k \in 1..Cardinality(keep) |-> list[pos(k)] ]

removeDependent ==
  /\ BetweenSubmissions
  /\ \E index \in -1..MaxDependents :
       dependents' = removeAt(dependents, index)
  /\ UNCHANGED << profile, form, showCalculator, invoices, uploading,
                  requests, storage, clock, uf >>
  /\ toast' = "none"
  /\ sub' = SubIdle

withField(d, field, value) ==
  IF field = "name" THEN [d EXCEPT !.name = value]
  ELSE [d EXCEPT !.relationship = value]

\* a variant that writes { [field]: value } without the spread
updateAt_NoSpread(list, index, field, value) ==
  IF index < 0 THEN list
  ELSE LET n == IF index + 1 > Len(list) THEN index + 1 ELSE Len(list)
           old(i) == IF i <= Len(list) THEN list[i] ELSE EmptySlot
       IN  [ i \in 1..n |->
               IF i = index + 1 THEN withField(EmptySlot, field, value)
               ELSE old(i) ]

\* const updated = [...dependents];
\* updated[index] = { ...updated[index], [field]: value };
\* A negative index sets a property of the array object and no element;
\* an index at or past the end extends the array, with holes up to it.
updateAt(list, index, field, value) ==
  IF index < 0 THEN list
  ELSE LET n == IF index + 1 > Len(list) THEN index + 1 ELSE Len(list)
           old(i) == IF i <= Len(list) THEN list[i] ELSE EmptySlot
       IN  [ i \in 1..n |->
               IF i = index + 1 THEN withField(old(i), field, value)
               ELSE old(i) ]

updateDependent ==
  /\ BetweenSubmissions
  /\ \E index \in -1..(MaxDependents - 1), field \in DependentFields,
        value \in DependentValues :
       dependents' = updateAt(dependents, index, field, value)
  /\ UNCHANGED << profile, form, showCalculator, invoices, uploading,
                  requests, storage, clock, uf >>
  /\ toast' = "none"
  /\ sub' = SubIdle

----------------------------------------------------------------------------
(* File upload gateway: uploadFiles *)

\* File objects: name and size in bytes.  B is exactly 50 MiB, C one byte more.
FileA == [name |-> "a.pdf", size |-> MiB]
FileB == [name |-> "b.pdf", size |-> MAX_FILE_SIZE]
FileC == [name |-> "c.pdf", size |-> MAX_FILE_SIZE + 1]
FileInputs == {FileA, FileB, FileC}

SeqsUpTo(S, n) == UNION { [1..k -> S] : k \in 0..n }

\* `${profile.id}/${timestamp}-${file.name}`
storageKey(owner, timestamp, name) ==
  owner \o "/" \o ToString(timestamp) \o "-" \o name

\* a variant that rejects at the limit
tooLarge_AtLimit(file) == file.size >= MAX_FILE_SIZE

\* if (file.size > 50 * 1024 * 1024) throw
tooLarge(file) == file.size > MAX_FILE_SIZE

NoError == [file |-> "", cause |-> "none"]

\* uf records the uploadFiles call: where it stands (pc: idle, running,
\* returned, thrown), who called it, profile.id, the files, the number of
\* files handled (i), the local uploadedUrls, what the caller received
\* (returned, or error) and, as history, the storage calls made (calls)
\* and the positions of the files that failed (failed).
UfIdle == [pc |-> "idle", caller |-> "none", owner |-> NoProfile,
           files |-> <<>>, i |-> 0, uploadedUrls |-> <<>>,
           returned |-> <<>>, error |-> NoError,
           calls |-> <<>>, failed |-> <<>>]

\* entry of uploadFiles(files):
\* if (!profile?.id || files.length === 0) return [];
uploadFilesEnter(caller, files) ==
  IF profile = NoProfile \/ Len(files) = 0
  THEN [UfIdle EXCEPT !.pc = "returned", !.caller = caller, !.files = files]
  ELSE [UfIdle EXCEPT !.pc = "running", !.caller = caller, !.files = files,
                      !.owner = profile]

\* uploadedUrls.push(data.path); after the last file, return uploadedUrls
afterSuccess(u, call) ==
  LET urls == Append(u.uploadedUrls, call.key)
      last == u.i + 1 = Len(u.files)
  IN  [u EXCEPT !.i = u.i + 1,
                !.uploadedUrls = urls,
                !.calls = Append(u.calls, call),
                !.pc = IF last THEN "returned" ELSE "running",
                !.returned = IF last THEN urls ELSE <<>>]

\* a variant that logs the failure and goes on with the next file
afterThrow_Skip(u, calls, cause) ==
  LET last == u.i + 1 = Len(u.files)
  IN  [u EXCEPT !.i = u.i + 1,
                !.calls = calls,
                !.failed = Append(u.failed, u.i + 1),
                !.pc = IF last THEN "returned" ELSE "running",
                !.returned = IF last THEN u.uploadedUrls ELSE <<>>]

\* throw new Error(`... ${file.name} ...`); catch (error) { throw error; }
\* the loop is left and the caller receives the error alone
afterThrow(u, calls, cause) ==
  [u EXCEPT !.pc = "thrown",
            !.calls = calls,
            !.failed = Append(u.failed, u.i + 1),
            !.error = [file |-> u.files[u.i + 1].name, cause |-> cause]]

CurrentFile == uf.files[uf.i + 1]

\* the storage call made for the current file when Date.now() answers t
storageCall(t) ==
  [index |-> uf.i + 1, timestamp |-> t,
   key |-> storageKey(uf.owner, t, CurrentFile.name)]

\* a direct call of uploadFiles(files) by the component
CallUploadFiles ==
  /\ uf.pc # "running"
  /\ \E files \in SeqsUpTo(FileInputs, MaxBatch) :
       uf' = uploadFilesEnter("direct", files)
  /\ UNCHANGED << profile, form, showCalculator, dependents, invoices,
                  uploading, toast, sub, requests, storage, clock >>

\* the size check fails: no storage call is made for the file
UploadTooLarge ==
  /\ uf.pc = "running"
  /\ tooLarge(CurrentFile)
  /\ uf' = afterThrow(uf, uf.calls, "size")
  /\ UNCHANGED << profile, form, showCalculator, dependents, invoices,
                  uploading, toast, sub, requests, storage, clock >>

\* const timestamp = Date.now(): the clock may have advanced since it was
\* last read, and never goes back
ReadClock(t) == /\ t \in clock..MaxClock
                /\ clock' = t

\* storage.upload(fileName, file, {upsert: false}) stores the object and
\* answers { data: { path } }
UploadStored ==
  /\ uf.pc = "running"
  /\ ~tooLarge(CurrentFile)
  /\ \E t \in 0..MaxClock :
       /\ ReadClock(t)
       /\ storageCall(t).key \notin storage
       /\ storage' = storage \cup {storageCall(t).key}
       /\ uf' = afterSuccess(uf, storageCall(t))
  /\ UNCHANGED << profile, form, showCalculator, dependents, invoices,
                  uploading, toast, sub, requests >>

\* storage.upload answers { error }: a transport failure, or the key is
\* taken already (upsert: false)
UploadError ==
  /\ uf.pc = "running"
  /\ ~tooLarge(CurrentFile)
  /\ \E t \in 0..MaxClock :
       /\ ReadClock(t)
       /\ uf' = afterThrow(uf, Append(uf.calls, storageCall(t)), "storage")
  /\ UNCHANGED << profile, form, showCalculator, dependents, invoices,
                  uploading, toast, sub, requests, storage >>

\* storage.upload stores the object and answers neither an error nor a path
UploadNoPath ==
  /\ uf.pc = "running"
  /\ ~tooLarge(CurrentFile)
  /\ \E t \in 0..MaxClock :
       /\ ReadClock(t)
       /\ storageCall(t).key \notin storage
       /\ storage' = storage \cup {storageCall(t).key}
       /\ uf' = afterThrow(uf, Append(uf.calls, storageCall(t)), "nopath")
  /\ UNCHANGED << profile, form, showCalculator, dependents, invoices,
                  uploading, toast, sub, requests >>

----------------------------------------------------------------------------
(* Form fields and validation *)

Digits == {"0", "1", "2", "3", "4", "5", "6", "7", "8", "9"}

\* texts typed or pasted into the CPF field, one character per element
CpfTyped ==
  { <<"1", "2", "3", "4", "5", "6", "7", "8", "9", "0", "1">>,
    <<"1", "2", "3", ".", "4", "5", "6", ".", "7", "8", "9", "-", "0", "1">>,
    <<"1", "2", "3", "4", "5", "6", "7", "8", "9", "0", "1", "2">> }

PoloInputs == {"3M Manaus"}

\* e.target.value.replace(/\D/g, '').slice(0, 11)
sanitizeCpf(text) ==
  LET isDigit(c) == c \in Digits
      digits == SelectSeq(text, isDigit)
  IN  IF Len(digits) > CPF_LENGTH THEN SubSeq(digits, 1, CPF_LENGTH)
      ELSE digits

SetCpf ==
  /\ BetweenSubmissions
  /\ \E text \in CpfTyped : form' = [form EXCEPT !.cpf = sanitizeCpf(text)]
  /\ UNCHANGED << profile, showCalculator, dependents, invoices, uploading,
                  requests, storage, clock, uf >>
  /\ toast' = "none"
  /\ sub' = SubIdle

SetPolo ==
  /\ BetweenSubmissions
  /\ \E p \in PoloInputs : form' = [form EXCEPT !.polo = p]
  /\ UNCHANGED << profile, showCalculator, dependents, invoices, uploading,
                  requests, storage, clock, uf >>
  /\ toast' = "none"
  /\ sub' = SubIdle

\* zodResolver(formSchema): the dependents are no part of the schema
formSchema(values) ==
  /\ Len(values.cpf) >= CPF_LENGTH
  /\ Len(values.cpf) = CPF_LENGTH
  /\ \A i \in 1..Len(values.cpf) : values.cpf[i] \in Digits
  /\ values.amount >= MIN_AMOUNT
  /\ values.polo # ""
  /\ values.salary >= 0

----------------------------------------------------------------------------
(* Invoice collector *)

InvoiceInputs == { [file |-> NoFile], [file |-> FileA], [file |-> FileC] }

\* InvoiceManager onChange={setInvoices}: the whole collection is replaced
setInvoices ==
  /\ BetweenSubmissions
  /\ \E list \in SeqsUpTo(InvoiceInputs, MaxInvoices) : invoices' = list
  /\ UNCHANGED << profile, form, showCalculator, dependents, uploading,
                  requests, storage, clock, uf >>
  /\ toast' = "none"
  /\ sub' = SubIdle

----------------------------------------------------------------------------
(* Request submission workflow: onSubmit *)

\* a variant without the filter
filesToUpload_All(list) == [ k \in 1..Len(list) |-> list[k].file ]

\* (invoices || []).filter(inv => !!inv.file).map(inv => inv.file)
filesToUpload(list) ==
  LET keep == { i \in 1..Len(list) : list[i].file # NoFile }
      pos(k) == CHOOSE i \in keep : Cardinality({ j \in keep : j <= i }) = k
  IN  [ k \in 1..Cardinality(keep) |-> list[pos(k)].file ]

\* if (filesToUpload.length > 0 && created?.id)
mustUpload(files, id) == Len(files) > 0 /\ id # 0

\* the submit button is disabled while uploading; handleSubmit calls onSubmit
\* only with values that pass the schema
CanSubmit ==
  /\ ~uploading
  /\ sub.pc \in {"idle", "done", "errored"}
  /\ formSchema(form)

\* a variant without the check of the profile
missingIdentity_Ignored == FALSE

\* if (!profile?.id) { toast(...); return; }
missingIdentity == profile = NoProfile

SubmitNoProfile ==
  /\ CanSubmit
  /\ missingIdentity
  /\ toast' = "Erro: Usuario nao encontrado"
  /\ sub' = [SubIdle EXCEPT !.pc = "errored", !.values = form,
                            !.invoices = invoices, !.dependents = dependents]
  /\ UNCHANGED << profile, form, showCalculator, dependents, invoices,
                  uploading, requests, storage, clock, uf >>

\* setUploading(true); await createRequest({...}) is called with the
\* values, invoices and dependents of the render that was submitted
SubmitCreate ==
  /\ CanSubmit
  /\ ~missingIdentity
  /\ Len(requests) < MaxRequests
  /\ uploading' = TRUE
  /\ toast' = "none"
  /\ sub' = [SubIdle EXCEPT !.pc = "creating", !.values = form,
                            !.invoices = invoices, !.dependents = dependents]
  /\ UNCHANGED << profile, form, showCalculator, dependents, invoices,
                  requests, storage, clock, uf >>

\* the record createRequest is asked to write
requestPayload(s) ==
  [type |-> "outros", amount |-> s.values.amount, polo |-> s.values.polo,
   cpf |-> s.values.cpf, invoices |-> s.invoices, dependents |-> s.dependents]

\* form.reset(); setInvoices([]); setDependents([]); setShowCalculator(false);
\* toast Sucesso; finally setUploading(false)
FinishDone ==
  /\ form' = defaultValues
  /\ invoices' = <<>>
  /\ dependents' = <<>>
  /\ showCalculator' = FALSE
  /\ toast' = "Sucesso!"
  /\ uploading' = FALSE

\* a variant of the catch that shows the success notification
FinishErrored_Success ==
  /\ toast' = "Sucesso!"
  /\ uploading' = FALSE
  /\ UNCHANGED << form, invoices, dependents, showCalculator >>

\* a variant of the catch that resets the form as the success path does
FinishErrored_Clearing ==
  /\ toast' = "Erro ao criar solicitacao. Tente novamente."
  /\ uploading' = FALSE
  /\ form' = defaultValues
  /\ invoices' = <<>>
  /\ dependents' = <<>>
  /\ UNCHANGED showCalculator

\* catch: toast Erro; finally setUploading(false)
FinishErrored ==
  /\ toast' = "Erro ao criar solicitacao. Tente novamente."
  /\ uploading' = FALSE
  /\ UNCHANGED << form, invoices, dependents, showCalculator >>

\* createRequest: the id of the record it writes, and the table after it
newRequestId == Len(requests) + 1

createRequestWrites(id) == Append(requests, [id |-> id, owner |-> profile])

\* uploadInvoices(requestId, files) hands the files to the upload gateway
\* and, when every file is stored, links the returned paths to the request
uploadInvoicesEnter(files) == uploadFilesEnter("submit", files)

uploadInvoicesLinks(u) == u.returned

\* createRequest answers the new record, with its id
CreateRequestOk ==
  /\ sub.pc = "creating"
  /\ LET id == newRequestId
         files == filesToUpload(sub.invoices)
     IN  /\ requests' = createRequestWrites(id)
         /\ IF mustUpload(files, id)
            THEN /\ uf.pc # "running"
                 /\ sub' = [sub EXCEPT !.pc = "uploadingInvoices",
                               !.created = id,
                               !.uploadCalls = Append(sub.uploadCalls,
                                   [id |-> id, files |-> files])]
                 /\ uf' = uploadInvoicesEnter(files)
                 /\ UNCHANGED << form, invoices, dependents, showCalculator,
                                 toast, uploading >>
            ELSE /\ sub' = [sub EXCEPT !.pc = "done", !.created = id]
                 /\ FinishDone
                 /\ UNCHANGED uf
  /\ UNCHANGED << profile, storage, clock >>

\* createRequest fails
CreateRequestFail ==
  /\ sub.pc = "creating"
  /\ sub' = [sub EXCEPT !.pc = "errored"]
  /\ FinishErrored
  /\ UNCHANGED << profile, requests, storage, clock, uf >>

\* uploadInvoices(created.id, files) resolves: the paths are linked
UploadInvoicesOk ==
  /\ sub.pc = "uploadingInvoices"
  /\ uf.caller = "submit" /\ uf.pc = "returned"
  /\ sub' = [sub EXCEPT !.pc = "done", !.stored = uf.uploadedUrls,
                        !.linked = uploadInvoicesLinks(uf)]
  /\ uf' = UfIdle
  /\ FinishDone
  /\ UNCHANGED << profile, requests, storage, clock >>

\* uploadInvoices(created.id, files) rejects
UploadInvoicesFail ==
  /\ sub.pc = "uploadingInvoices"
  /\ uf.caller = "submit" /\ uf.pc = "thrown"
  /\ sub' = [sub EXCEPT !.pc = "errored", !.stored = uf.uploadedUrls]
  /\ uf' = UfIdle
  /\ FinishErrored
  /\ UNCHANGED << profile, requests, storage, clock >>

----------------------------------------------------------------------------
(* Specifications *)

Init ==
  /\ profile \in {NoProfile} \cup Owners
  /\ form = defaultValues
  /\ showCalculator = FALSE
  /\ dependents = <<>>
  /\ invoices = <<>>
  /\ uploading = FALSE
  /\ toast = "none"
  /\ sub = SubIdle
  /\ requests = <<>>
  /\ storage = {}
  /\ clock = 0
  /\ uf = UfIdle

\* the calculator
NextCalc == SetSalary \/ SetAmount \/ ToggleCalculator \/ useSuggestedAmount

SpecCalc == Init /\ [][NextCalc]_vars

\* the dependent list editor
NextDependents == addDependent \/ removeDependent \/ updateDependent

SpecDependents == Init /\ [][NextDependents]_vars

\* the upload gateway, called directly
NextUpload ==
  \/ CallUploadFiles
  \/ UploadTooLarge
  \/ UploadStored
  \/ UploadError
  \/ UploadNoPath

SpecUpload == Init /\ [][NextUpload]_vars

\* the submission workflow
Next ==
  \/ SetCpf
  \/ SetAmount
  \/ SetPolo
  \/ addDependent
  \/ removeDependent
  \/ setInvoices
  \/ SubmitNoProfile
  \/ SubmitCreate
  \/ CreateRequestOk
  \/ CreateRequestFail
  \/ UploadTooLarge
  \/ UploadStored
  \/ UploadError
  \/ UploadNoPath
  \/ UploadInvoicesOk
  \/ UploadInvoicesFail

Spec == Init /\ [][Next]_vars

----------------------------------------------------------------------------
(* Properties *)

\* C1: calculateReimbursement(salary) is 0 when salary <= 0, the floor
\* 2018.36 when salary > 0 and salary * 0.9 <= 2018.36, and salary * 0.9
\* when salary * 0.9 > 2018.36.
C1_Piecewise ==
  LET salary == form.salary
      result == calculateReimbursement(salary)
  IN  /\ salary <= 0 => result = 0
      /\ (salary > 0 /\ salary * 9 <= BASE_SALARY * 10) => result = BASE_SALARY
      /\ salary * 9 > BASE_SALARY * 10 => result * 10 = salary * 9

\* the floor was suggested for a positive salary and taken as the amount
C1_Witness ==
  /\ form.salary > 0
  /\ form.salary * 9 <= BASE_SALARY * 10
  /\ toast = "Valor atualizado"
  /\ form.amount = BASE_SALARY

\* C2: uploadFiles handles the files one at a time in input order and stops
\* at the first file that fails: no storage call is made for a later file,
\* the objects stored for the earlier files stay in storage, and the caller
\* receives an error naming the failing file and no list of paths.
C2_StopsAtFirstFailure ==
  /\ \A j \in 1..Len(uf.calls) :
       /\ uf.calls[j].index <= uf.i + 1
       /\ \A h \in 1..(j - 1) : uf.calls[h].index < uf.calls[j].index
  /\ \A j \in 1..Len(uf.uploadedUrls) : uf.uploadedUrls[j] \in storage
  /\ uf.failed # <<>> =>
       /\ uf.pc = "thrown"
       /\ uf.failed = << uf.i + 1 >>
       /\ uf.error.file = uf.files[uf.i + 1].name
       /\ uf.returned = <<>>
       /\ Len(uf.uploadedUrls) = uf.i
       /\ \A j \in 1..Len(uf.calls) : uf.calls[j].index <= uf.failed[1]

\* of [A, B, C] the second failed at the storage call: A is stored, the
\* call has thrown, and C was never tried
C2_Witness ==
  /\ uf.files = << FileA, FileB, FileC >>
  /\ uf.pc = "thrown"
  /\ uf.failed = << 2 >>
  /\ uf.error.file = FileB.name
  /\ Len(uf.uploadedUrls) = 1
  /\ uf.uploadedUrls[1] \in storage

\* C3: a file of more than 50 MiB is rejected with an error naming it and
\* no storage call is made for it; a file of exactly 50 MiB is not rejected
\* by the size check.
C3_SizeLimit ==
  /\ \A j \in 1..Len(uf.calls) :
       uf.files[uf.calls[j].index].size <= 50 * 1024 * 1024
  /\ \A k \in 1..uf.i : uf.files[k].size <= 50 * 1024 * 1024
  /\ uf.error.cause = "size" =>
       /\ uf.pc = "thrown"
       /\ uf.files[uf.i + 1].size > 50 * 1024 * 1024
       /\ uf.error.file = uf.files[uf.i + 1].name
  /\ (uf.pc = "thrown" /\ uf.files[uf.i + 1].size > 50 * 1024 * 1024) =>
       uf.error.cause = "size"

\* the 50 MiB file passed the check and was stored, the next was rejected
\* for its size
C3_Witness ==
  /\ uf.files = << FileB, FileC >>
  /\ uf.pc = "thrown"
  /\ uf.error = [file |-> FileC.name, cause |-> "size"]
  /\ Len(uf.calls) = 1
  /\ storageKey(uf.owner, uf.calls[1].timestamp, FileB.name) \in storage

\* C4: createRequest is never called with a dependents list that holds an
\* entry whose relationship is empty.
C4_NoEmptyRelationship ==
  sub.pc = "creating" =>
    \A i \in 1..Len(requestPayload(sub).dependents) :
      requestPayload(sub).dependents[i].relationship \notin {"", Undefined}

\* C5: without a profile id a submission ends at once in Errored with the
\* missing-identity message; createRequest and the upload are never called.
C5_MissingIdentity ==
  profile = NoProfile =>
    /\ sub.pc \in {"idle", "errored"}
    /\ sub.pc = "errored" => toast = "Erro: Usuario nao encontrado"
    /\ sub.created = 0
    /\ sub.uploadCalls = <<>>
    /\ requests = <<>>
    /\ uf.pc = "idle"
    /\ storage = {}
    /\ ~uploading

\* a valid form with a file-bearing invoice was submitted without a profile
C5_Witness ==
  /\ profile = NoProfile
  /\ sub.pc = "errored"
  /\ sub.invoices = << [file |-> FileA] >>

\* C6: after a successful creation the upload is called exactly once, with
\* the id of the new request and the files of the file-bearing invoices in
\* queue order, when there is such an invoice, and not at all otherwise;
\* Done is not reached before that.
C6_UploadHandOff ==
  LET hasFile(inv) == inv.file # NoFile
      bearing == SelectSeq(sub.invoices, hasFile)
      expected == [ k \in 1..Len(bearing) |-> bearing[k].file ]
  IN  /\ sub.pc = "creating" => sub.uploadCalls = <<>>
      /\ sub.pc = "uploadingInvoices" => expected # <<>>
      /\ sub.pc \in {"uploadingInvoices", "done"} =>
           /\ sub.created = Len(requests)
           /\ sub.created >= 1
           /\ sub.uploadCalls =
                IF expected # <<>>
                THEN << [id |-> sub.created, files |-> expected] >>
                ELSE <<>>
      /\ (sub.pc = "uploadingInvoices" /\ uf.pc # "idle") =>
           uf.files = expected

\* the queue held an invoice without a file and one with a file: the one
\* file was handed over, stored and linked, and the workflow is Done
C6_Witness ==
  /\ sub.pc = "done"
  /\ sub.invoices = << [file |-> NoFile], [file |-> FileA] >>
  /\ sub.uploadCalls = << [id |-> 1, files |-> << FileA >>] >>
  /\ Len(sub.stored) = 1
  /\ sub.linked = sub.stored

\* C7: when creation succeeded and the upload of the invoices fails, the
\* workflow ends in Errored with the generic message and no success
\* notification, the created request still exists, and the files stored
\* before the failure stay in storage and are not linked to the request.
C7_UploadFailure ==
  /\ (sub.pc = "errored" /\ sub.created # 0) =>
       /\ toast = "Erro ao criar solicitacao. Tente novamente."
       /\ \E r \in 1..Len(requests) : requests[r].id = sub.created
       /\ \A j \in 1..Len(sub.stored) : sub.stored[j] \in storage
       /\ sub.linked = <<>>
  /\ (sub.pc = "done" /\ sub.uploadCalls # <<>>) =>
       /\ Len(sub.stored) = Len(sub.uploadCalls[1].files)
       /\ toast = "Sucesso!"

\* the first invoice file was stored, the second was too large: the request
\* exists and the workflow is Errored
C7_Witness ==
  /\ sub.pc = "errored"
  /\ sub.created = 1
  /\ sub.invoices = << [file |-> FileA], [file |-> FileC] >>
  /\ Len(sub.stored) = 1
  /\ sub.stored[1] \in storage
  /\ Len(requests) = 1

\* C8 as stated: updateDependent changes only the named field of the
\* element at index, and is a no-op when index is out of bounds.
C8_NoOpOutOfBounds ==
  \A index \in -1..MaxDependents, field \in DependentFields,
     value \in DependentValues :
    LET r == updateAt(dependents, index, field, value)
        other == IF field = "name" THEN "relationship" ELSE "name"
    IN  IF index >= 0 /\ index < Len(dependents)
        THEN /\ Len(r) = Len(dependents)
             /\ r[index + 1][field] = value
             /\ r[index + 1][other] = dependents[index + 1][other]
             /\ \A i \in 1..Len(r) : i # index + 1 => r[i] = dependents[i]
        ELSE r = dependents

\* C8 amended: within bounds updateDependent changes only the named field
\* of the element at index; a negative index leaves the elements as they
\* are; an index at or past the end extends the list to index + 1 elements,
\* the old elements kept, the new element at index holding the named field
\* alone and the elements between holding no field.
C8_UpdateFrame ==
  \A index \in -1..MaxDependents, field \in DependentFields,
     value \in DependentValues :
    LET r == updateAt(dependents, index, field, value)
        other == IF field = "name" THEN "relationship" ELSE "name"
    IN  IF index >= 0 /\ index < Len(dependents)
        THEN /\ Len(r) = Len(dependents)
             /\ r[index + 1][field] = value
             /\ r[index + 1][other] = dependents[index + 1][other]
             /\ \A i \in 1..Len(r) : i # index + 1 => r[i] = dependents[i]
        ELSE IF index < 0
        THEN r = dependents
        ELSE /\ Len(r) = index + 1
             /\ r[index + 1][field] = value
             /\ r[index + 1][other] = Undefined
             /\ \A i \in 1..Len(dependents) : r[i] = dependents[i]
             /\ \A i \in (Len(dependents) + 1)..index :
                  r[i] = [name |-> Undefined, relationship |-> Undefined]

\* an update at index 1 of a one-element list added a second element that
\* holds a name and no relationship, and one within bounds changed the
\* relationship of the first and nothing else
C8_Witness ==
  /\ Len(dependents) = 2
  /\ dependents[1] = [name |-> "", relationship |-> "filho"]
  /\ dependents[2] = [name |-> "Ana", relationship |-> Undefined]

\* C9: storage keys have the layout {ownerId}/{timestamp}-{fileName}, and
\* no two files of one owner are given the same key, whatever the batch and
\* the (non-decreasing) clock.
C9_UniqueKeys ==
  /\ \A j \in 1..Len(uf.calls) :
       uf.calls[j].key =
         uf.owner \o "/" \o ToString(uf.calls[j].timestamp) \o "-"
                  \o uf.files[uf.calls[j].index].name
  /\ \A j, h \in 1..Len(uf.calls) :
       j # h => uf.calls[j].key # uf.calls[h].key

\* C10: the form fields, the dependents and the invoices are cleared when
\* a submission reaches Done and only then: while it runs and when it ends
\* in Errored they are as they were at submit; once it has ended the
\* uploading flag is false again.
C10_ClearedOnlyOnDone ==
  /\ sub.pc = "done" =>
       /\ form = defaultValues
       /\ dependents = <<>>
       /\ invoices = <<>>
  /\ sub.pc \in {"creating", "uploadingInvoices", "errored"} =>
       /\ form = sub.values
       /\ dependents = sub.dependents
       /\ invoices = sub.invoices
  /\ sub.pc \in {"creating", "uploadingInvoices"} => uploading
  /\ sub.pc \in {"idle", "done", "errored"} => ~uploading

\* a submission with a dependent and two invoices ended in Errored after
\* the request was created: nothing was cleared
C10_Witness ==
  /\ sub.pc = "errored"
  /\ sub.created # 0
  /\ Len(dependents) = 1
  /\ Len(invoices) = 2
  /\ form.amount > 0
  /\ ~uploading

====
